---- MODULE Spec2Model ----
(***************************************************************************)
(* A model of ppap.py: the yacc grammar actions that build the instruction *)
(* list and the two name tables, parse(), the interpreter run(), the       *)
(* lowering pass to_c() and the command-line entry point.                  *)
(*                                                                         *)
(* Representation.  A source text is a sequence of lines, each terminated  *)
(* by NEWLINE; a line is the record of the tokens the grammar sees on it.  *)
(* A register name is a string.  A label name 'A-B-C' is the sequence of   *)
(* its segments <<"A","B","C">>: register names hold no hyphen, so the     *)
(* segments determine the string and the string the segments.  A Python    *)
(* tuple ('MOV', a, b) is the record [op, args, label, value]; Python's    *)
(* None in the place of an instruction is the record whose op is "None".   *)
(***************************************************************************)
EXTENDS Integers, Sequences, FiniteSets, TLC

VARIABLES
    source,          \* data: the lines of the file read by __main__
    to_c_flag,       \* args.to_c
    stdin,           \* the characters (code points) waiting on standard input
    phase,           \* where __main__ stands
    lineno,          \* lexobj.lineno: the line the parser is reading
    register_names,  \* the global list register_names
    label_names,     \* the global list label_names
    p,               \* the value yacc holds for the symbol `program`
    parser_error,    \* parser.error
    stderr,          \* the diagnostics printed so far
    res,             \* res = parse(data)
    pc,              \* run(): pc
    registers,       \* run(): registers
    memory,          \* run(): memory
    label_map,       \* run(): label_map
    stdout,          \* the bytes run() has printed
    inpos,           \* how many characters run() has read from stdin
    status,          \* run(): "idle", "running", "done" or the exception raised
    trace,           \* history: the instructions run() has executed, with the state before each
    c_text,          \* the listing to_c() has printed
    native,          \* the state of the emitted program when it is built and run
    chop,            \* the operands and the result of one DIV, in wide integers
    calls            \* a caller of parse(): the texts it has yet to pass, the calls that returned

vars == <<source, to_c_flag, stdin, phase, lineno, register_names, label_names, p,
          parser_error, stderr, res, pc, registers, memory, label_map, stdout, inpos,
          status, trace, c_text, native, chop, calls>>

---------------------------------------------------------------------------
(* Bounds of the model *)

MaxLines == 3
MaxBody == 2
MaxSteps == 6

---------------------------------------------------------------------------
(* Source lines *)

NoSegs == <<>>

\* `I have [<number>] <register>`: num is "absent", "no", "a", "an" or "NUMBER",
\* and digits is the text of a NUMBER, one decimal digit after the other
DeclLine(num, digits, name) ==
    [kind |-> "decl", uh |-> FALSE, num |-> num, digits |-> digits, name |-> name,
     cmd |-> "", regs |-> <<>>, label |-> NoSegs, bang |-> FALSE, quest |-> FALSE]

\* `A-B` or `Uh! A-B` on a line of its own
LabelLine(uh, segs) ==
    [kind |-> "label", uh |-> uh, num |-> "absent", digits |-> <<>>, name |-> "",
     cmd |-> "", regs |-> <<>>, label |-> segs, bang |-> FALSE, quest |-> FALSE]

\* `Uh! <Command>-<register>...[-<label>!][?]`
CmdLine(cmd, regs, segs, bang, quest) ==
    [kind |-> "cmd", uh |-> TRUE, num |-> "absent", digits |-> <<>>, name |-> "",
     cmd |-> cmd, regs |-> regs, label |-> segs, bang |-> bang, quest |-> quest]

BlankLine ==
    [kind |-> "blank", uh |-> FALSE, num |-> "absent", digits |-> <<>>, name |-> "",
     cmd |-> "", regs |-> <<>>, label |-> NoSegs, bang |-> FALSE, quest |-> FALSE]

\* a line that starts as a line may and then matches no production of `line`,
\* such as `I have`: the token yacc rejects is the NEWLINE
GarbageLine ==
    [kind |-> "garbage", uh |-> FALSE, num |-> "absent", digits |-> <<>>, name |-> "",
     cmd |-> "", regs |-> <<>>, label |-> NoSegs, bang |-> FALSE, quest |-> FALSE]

\* a line of one token that no line starts with, such as `have`
JunkLine ==
    [kind |-> "junk", uh |-> FALSE, num |-> "absent", digits |-> <<>>, name |-> "",
     cmd |-> "", regs |-> <<>>, label |-> NoSegs, bang |-> FALSE, quest |-> FALSE]

\* the characters of the register names of the model, as t_REGISTER matches them
Spelling ==
    [P |-> <<"P">>, Q |-> <<"Q">>, PQ |-> <<"P", "Q">>, Pen |-> <<"P", "e", "n">>]

\* the register names of the model that contain 'p' or 'P'
NamesWithP == {"P", "PQ", "Pen"}

---------------------------------------------------------------------------
(* Instructions *)

Instr(op, args, label, value) == [op |-> op, args |-> args, label |-> label, value |-> value]

NoneValue == Instr("None", <<>>, NoSegs, 0)

\* Python's truth value of an instruction tuple or None
Truthy(v) == v.op # "None"

\* Python's truth value of a register name (a non-empty string)
TruthyName(name) == name # ""

Contains(seq, x) == \E i \in 1..Len(seq) : seq[i] = x

Diag(line, msg, text) == [line |-> line, msg |-> msg, text |-> text]

---------------------------------------------------------------------------
(* Grammar actions *)

binary_commands ==
    [Replace |-> "MOV", Append |-> "ADD", Rip |-> "SUB", Multiply |-> "MUL",
     Chop |-> "DIV", Push |-> "STORE", Pull |-> "LOAD"]

\* p_line: does the line match one of the productions of `line`?
MatchesLine(line) ==
    CASE line.kind = "blank" -> TRUE
      [] line.kind = "decl" -> line.num \in {"absent", "no", "a", "an", "NUMBER"}
      [] line.kind = "label" -> Len(line.label) >= 2
      [] line.kind = "cmd" ->
            CASE line.cmd \in DOMAIN binary_commands ->
                    Len(line.regs) = 2 /\ line.label = NoSegs /\ ~line.bang /\ ~line.quest
              [] line.cmd \in {"Print", "Pick"} ->
                    Len(line.regs) = 1 /\ line.label = NoSegs /\ ~line.bang /\ ~line.quest
              [] line.cmd = "Put" ->
                    Len(line.regs) >= 1 /\ line.label = NoSegs /\ ~line.bang /\ ~line.quest
              [] line.cmd \in {"Compare", "Superior"} ->
                    /\ Len(line.regs) = 2
                    /\ line.bang <=> (line.label # NoSegs)
                    /\ line.label # NoSegs => Len(line.label) >= 2
              [] line.cmd = "Jump" ->
                    Len(line.regs) = 0 /\ Len(line.label) >= 2 /\ ~line.bang /\ ~line.quest
              [] OTHER -> FALSE
      [] OTHER -> FALSE

\* t_NUMBER: int(t.value) of a text matching \d+
RECURSIVE t_NUMBER(_)
t_NUMBER(digits) ==
    IF digits = <<>> THEN 0
    ELSE 10 * t_NUMBER(SubSeq(digits, 1, Len(digits) - 1)) + digits[Len(digits)]

\* a test of the whole word in the place of its first letter
p_numberMutWord(num, digits) ==
    IF num = "NUMBER" THEN t_NUMBER(digits)
    ELSE IF num = "a" THEN 1
    ELSE 0

\* p_number: an int as it is, 1 for a word that starts with 'a', else 0
p_number(num, digits) ==
    IF num = "NUMBER" THEN t_NUMBER(digits)
    ELSE IF num \in {"a", "an"} THEN 1
    ELSE 0

\* p_register_declaration: the instruction, and the naming warning
p_register_declaration(line) ==
    Instr("REGISTER", <<line.name>>,  NoSegs,
          IF line.num = "absent" THEN 0 ELSE p_number(line.num, line.digits))

NamingDiags(line, ln) ==
    IF line.name \notin NamesWithP
    THEN <<Diag(ln, "does not include 'p' or 'P'", <<line.name>>)>>
    ELSE <<>>

\* p_register: the value of the symbol `register` (p[0] = p[1])
p_register(name, names) == name

\* p_register: is the reference reported?
IsUndeclared(name, names, labels) == ~Contains(names, name)

\* the register references of a line, in the order yacc reduces them
References(line) == line.regs \o line.label

RECURSIVE RegisterDiags(_, _, _, _)
RegisterDiags(refs, ln, names, labels) ==
    IF refs = <<>> THEN <<>>
    ELSE (IF IsUndeclared(Head(refs), names, labels)
          THEN <<Diag(ln, "is an undeclared register", <<Head(refs)>>)>>
          ELSE <<>>) \o RegisterDiags(Tail(refs), ln, names, labels)

Values(refs, names) == [i \in 1..Len(refs) |-> p_register(refs[i], names)]

AllTruthy(vals) == \A i \in 1..Len(vals) : TruthyName(vals[i])

\* p_label: ('LABEL', 'A-B-...') when every segment is truthy
p_label(segs) ==
    IF AllTruthy(segs) THEN Instr("LABEL", <<>>, segs, 0) ELSE NoneValue

\* p_replace, p_append, p_rip, p_multiply, p_chop, p_push, p_pull
p_binary(cmd, r) ==
    IF TruthyName(r[1]) /\ TruthyName(r[2])
    THEN Instr(binary_commands[cmd], <<r[1], r[2]>>, NoSegs, 0)
    ELSE NoneValue

\* p_print, p_pick
p_unary(cmd, r) ==
    IF TruthyName(r[1])
    THEN Instr(IF cmd = "Print" THEN "PRINT" ELSE "GETC", <<r[1]>>, NoSegs, 0)
    ELSE NoneValue

\* p_registers and p_put
p_put(r) == IF AllTruthy(r) THEN Instr("PUTC", r, NoSegs, 0) ELSE NoneValue

\* p_compare and p_superior: the four shapes plain, `?`, `-label!`, `-label!?`
\* actions that build the same instruction with and without the `?`
p_compareMutNoQuest(cmd, r, lab, quest) ==
    LET plain == IF cmd = "Compare" THEN "EQ" ELSE "GT"
        jump == IF cmd = "Compare" THEN "JEQ" ELSE "JGT"
        both == TruthyName(r[1]) /\ TruthyName(r[2])
    IN  IF lab = NoSegs
        THEN IF both THEN Instr(plain, <<r[1], r[2]>>, NoSegs, 0) ELSE NoneValue
        ELSE IF both /\ Truthy(p_label(lab))
             THEN Instr(jump, <<r[1], r[2]>>, p_label(lab).label, 0)
             ELSE NoneValue

p_compare(cmd, r, lab, quest) ==
    LET plain == IF cmd = "Compare" THEN "EQ" ELSE "GT"
        inverted == IF cmd = "Compare" THEN "NE" ELSE "GE"
        jump == IF cmd = "Compare" THEN "JEQ" ELSE "JGT"
        jumpInverted == IF cmd = "Compare" THEN "JNE" ELSE "JGE"
        both == TruthyName(r[1]) /\ TruthyName(r[2])
    IN  IF lab = NoSegs
        THEN IF both THEN Instr(IF quest THEN inverted ELSE plain, <<r[1], r[2]>>, NoSegs, 0)
             ELSE NoneValue
        ELSE IF both /\ Truthy(p_label(lab))
             THEN Instr(IF quest THEN jumpInverted ELSE jump, <<r[1], r[2]>>,
                        p_label(lab).label, 0)
             ELSE NoneValue

\* p_jump
p_jump(lab) ==
    IF Truthy(p_label(lab)) THEN Instr("JMP", <<>>, p_label(lab).label, 0) ELSE NoneValue

\* p_command
p_command(line, names) ==
    LET r == Values(line.regs, names)
        lab == Values(line.label, names)
    IN  CASE line.cmd \in DOMAIN binary_commands -> p_binary(line.cmd, r)
          [] line.cmd \in {"Print", "Pick"} -> p_unary(line.cmd, r)
          [] line.cmd = "Put" -> p_put(r)
          [] line.cmd \in {"Compare", "Superior"} -> p_compare(line.cmd, r, lab, line.quest)
          [] OTHER -> p_jump(lab)

\* p_line: the value of a line that matches the grammar
p_line(line, names) ==
    CASE line.kind = "decl" -> p_register_declaration(line)
      [] line.kind = "label" -> p_label(Values(line.label, names))
      [] line.kind = "cmd" -> p_command(line, names)
      [] OTHER -> NoneValue

\* the diagnostics the actions of one matching line print, in order
LineDiags(line, ln, names, labels) ==
    IF line.kind = "decl" THEN NamingDiags(line, ln)
    ELSE RegisterDiags(References(line), ln, names, labels)

\* add_program: the three effects
add_program_namesMutFirstOnly(names, program) ==
    IF program.op = "REGISTER" /\ names = <<>>
    THEN Append(names, program.args[1])
    ELSE names

add_program_names(names, program) ==
    IF program.op = "REGISTER" /\ ~Contains(names, program.args[1])
    THEN Append(names, program.args[1])
    ELSE names

\* the string of a register name, as the segments of a label string
AsSegs(name) == <<name>>

\* add_program: `program[1] not in register_names`, negated: the test that
\* decides the `label already exists` branch
LabelExists(names, labels, program) ==
    \E i \in 1..Len(names) : AsSegs(names[i]) = program.label

add_program_labels(names, labels, program) ==
    IF program.op = "LABEL" /\ ~LabelExists(names, labels, program)
    THEN Append(labels, program.label)
    ELSE labels

add_program_diags(names, labels, program) ==
    IF program.op = "LABEL" /\ LabelExists(names, labels, program)
    THEN <<Diag(0, "label already exists", program.label)>>
    ELSE <<>>

NoneProgram == [none |-> TRUE, list |-> <<>>]
Program(list) == [none |-> FALSE, list |-> list]

\* p_program: is add_program called for this line?
Adds(first, prog, value) ==
    IF first THEN Truthy(value) ELSE ~prog.none /\ Truthy(value)

\* p_program: the new value of `program`
p_program(first, prog, value) ==
    LET base == IF first THEN Program(<<>>) ELSE prog
    IN  IF Adds(first, prog, value) THEN Program(Append(base.list, value)) ELSE base

---------------------------------------------------------------------------
(* parse() *)

\* p_program_error sets parser.error; no other grammar action writes it
error_flagMutDiagnostics(matches, diags, err) == IF matches /\ diags = <<>> THEN err ELSE 1

error_flag(matches, diags, err) == IF matches THEN err ELSE 1

\* yacc's error recovery: a token that no action of the state accepts is handed
\* to p_error and, while the state stack holds the start state alone, thrown
\* away; `program : error` is reduced only from a deeper stack.  The stack is
\* that shallow only until the first token of the source is accepted.
Discarded(line, first) == first /\ line.kind = "junk"

\* the line yacc reduces once the discarded tokens are gone
Accepted(line, first) == IF Discarded(line, first) THEN BlankLine ELSE line

\* after `program : error` yacc offers the rejected token again.  A NEWLINE then
\* starts a blank line; a token no line starts with is, depending on the yacc
\* release, dropped or rejected again without end.
Resumes(line) == IF line.kind = "junk" THEN {"parse", "hung"} ELSE {"parse"}

\* a parse() that leaves register_names as the call before left it
ParseBeginMutKeepNames ==
    /\ phase = "start"
    /\ phase' = "parse"
    /\ label_names' = <<>>
    /\ lineno' = 1
    /\ parser_error' = 0
    /\ p' = [none |-> TRUE, list |-> <<>>]
    /\ UNCHANGED <<source, to_c_flag, stdin, register_names, stderr, res, pc, registers,
                   memory, label_map, stdout, inpos, status, trace, c_text, native, chop,
                   calls>>

\* parse(): the globals are reset before yacc runs
ParseBegin ==
    /\ phase = "start"
    /\ phase' = "parse"
    /\ register_names' = <<>>
    /\ label_names' = <<>>
    /\ lineno' = 1
    /\ parser_error' = 0
    /\ p' = NoneProgram
    /\ UNCHANGED <<source, to_c_flag, stdin, stderr, res, pc, registers, memory, label_map,
                   stdout, inpos, status, trace, c_text, native, chop,
                   calls>>

\* yacc reduces one line: `program : program line | line`, or `program : error`
\* (p_program_error) when the line matches no production
ParseLine ==
    /\ phase = "parse"
    /\ lineno <= Len(source)
    /\ LET first == lineno = 1
           line == Accepted(source[lineno], first)
           value == p_line(line, register_names)
           diags == LineDiags(line, lineno, register_names, label_names)
       IN  /\ parser_error' = error_flag(MatchesLine(line), diags, parser_error)
           /\ IF MatchesLine(line)
              THEN /\ p' = p_program(first, p, value)
                   /\ register_names' =
                         IF Adds(first, p, value) THEN add_program_names(register_names, value)
                         ELSE register_names
                   /\ label_names' =
                         IF Adds(first, p, value)
                         THEN add_program_labels(register_names, label_names, value)
                         ELSE label_names
                   /\ stderr' = stderr \o diags
                                  \o (IF Adds(first, p, value)
                                      THEN add_program_diags(register_names, label_names, value)
                                      ELSE <<>>)
              ELSE /\ p' = NoneProgram
                   /\ stderr' = Append(stderr, Diag(lineno, "syntax error", <<>>))
                   /\ UNCHANGED <<register_names, label_names>>
           /\ phase' \in (IF MatchesLine(line) THEN {"parse"} ELSE Resumes(line))
    /\ lineno' = lineno + 1
    /\ UNCHANGED <<source, to_c_flag, stdin, res, pc, registers, memory, label_map,
                   stdout, inpos, status, trace, c_text, native, chop,
                   calls>>

\* parse(): `if parser.error: return None`, else `return p`
parse_result(prog, err) == IF err # 0 THEN NoneProgram ELSE prog

ParseEnd ==
    /\ phase = "parse"
    /\ lineno > Len(source)
    /\ res' = parse_result(p, parser_error)
    /\ phase' = "main"
    /\ UNCHANGED <<source, to_c_flag, stdin, lineno, register_names, label_names, p,
                   parser_error, stderr, pc, registers, memory, label_map, stdout, inpos,
                   status, trace, c_text, native, chop,
                   calls>>

---------------------------------------------------------------------------
(* Integers.  Python's int is unbounded; the model holds register values   *)
(* as integers of magnitude at most IntCap and takes no step whose result  *)
(* would exceed it.  The operands of a true division are handled as wide   *)
(* integers: a sign and the bits of the magnitude, most significant first. *)

IntCapBits == 29
IntCap == 2^IntCapBits

Abs(v) == IF v < 0 THEN -v ELSE v

SumFits(a, b) == IF a >= 0 THEN b <= IntCap - a ELSE b >= (-IntCap) - a

ProductFits(a, b) == a = 0 \/ Abs(b) <= IntCap \div Abs(a)

Front(seq) == SubSeq(seq, 1, Len(seq) - 1)
Last(seq) == seq[Len(seq)]

RECURSIVE NatBits(_)
NatBits(n) == IF n = 0 THEN <<>> ELSE Append(NatBits(n \div 2), n % 2)

RECURSIVE BitsNat(_)
BitsNat(bits) == IF bits = <<>> THEN 0 ELSE 2 * BitsNat(Front(bits)) + Last(bits)

Wide(v) == [neg |-> v < 0, bits |-> NatBits(Abs(v))]
Narrow(w) == IF w.neg THEN -BitsNat(w.bits) ELSE BitsNat(w.bits)

Zeros(n) == [i \in 1..n |-> 0]

\* the bits without their leading zeros
Strip(bits) ==
    LET ones == {i \in 1..Len(bits) : bits[i] = 1}
    IN  IF ones = {} THEN <<>>
        ELSE SubSeq(bits, CHOOSE i \in ones : \A j \in ones : i <= j, Len(bits))

\* the magnitude plus one
Inc(bits) ==
    LET zeros == {i \in 1..Len(bits) : bits[i] = 0}
        z == CHOOSE i \in zeros : \A j \in zeros : j <= i
    IN  IF zeros = {} THEN <<1>> \o Zeros(Len(bits))
        ELSE SubSeq(bits, 1, z - 1) \o <<1>> \o Zeros(Len(bits) - z)

\* schoolbook division by d > 0 of the magnitude r0 * 2^Len(bits) + bits, r0 < d:
\* the quotient bits and the remainder
RECURSIVE LongDivFrom(_, _, _)
LongDivFrom(r0, bits, d) ==
    IF bits = <<>> THEN [q |-> <<>>, r |-> r0]
    ELSE IF Len(bits) = 1
    THEN IF 2 * r0 + bits[1] >= d THEN [q |-> <<1>>, r |-> 2 * r0 + bits[1] - d]
         ELSE [q |-> <<0>>, r |-> 2 * r0 + bits[1]]
    ELSE LET half == Len(bits) \div 2
             left == LongDivFrom(r0, SubSeq(bits, 1, half), d)
             right == LongDivFrom(left.r, SubSeq(bits, half + 1, Len(bits)), d)
         IN  [q |-> left.q \o right.q, r |-> right.r]

LongDiv(bits, d) == LongDivFrom(0, bits, d)

\* the significand of Python's float (an IEEE 754 double)
MantissaBits == 53

\* int(x) of the float x nearest to (q + r/d), ties to even: `a / b` of two
\* ints is the correctly rounded quotient, and int() drops its fraction
FloatToInt(q, r, d) ==
    LET n == Len(q)
        k == MantissaBits - n
    IN  IF n > MantissaBits
        THEN LET mant == SubSeq(q, 1, MantissaBits)
                 guard == q[MantissaBits + 1]
                 sticky == r # 0 \/ \E i \in (MantissaBits + 2)..n : q[i] = 1
                 up == guard = 1 /\ (sticky \/ Last(mant) = 1)
             IN  (IF up THEN Inc(mant) ELSE mant) \o Zeros(n - MantissaBits)
        ELSE IF k = 0
        THEN IF r > d - r \/ (r = d - r /\ Last(q) = 1) THEN Inc(q) ELSE q
        ELSE IF k + 1 <= IntCapBits /\ d - r <= d \div (2^(k + 1)) THEN Inc(q)
        ELSE q

\* run(): `int(registers[op[1]] / registers[op[2]])` for a wide a and b # 0
IntTrueDiv(a, b) ==
    LET d == LongDiv(a.bits, Abs(b))
        mag == FloatToInt(Strip(d.q), d.r, Abs(b))
    IN  [neg |-> (a.neg # (b < 0)) /\ mag # <<>>, bits |-> mag]

\* the quotient truncated toward zero
TruncQuotient(a, b) ==
    LET mag == Strip(LongDiv(a.bits, Abs(b)).q)
    IN  [neg |-> (a.neg # (b < 0)) /\ mag # <<>>, bits |-> mag]

---------------------------------------------------------------------------
(* run() *)

memory_size == 16777216

RECURSIVE NatDigits(_)
NatDigits(n) == IF n < 10 THEN <<48 + n>> ELSE Append(NatDigits(n \div 10), 48 + (n % 10))

\* f'{v}': the decimal digits of v, as character codes
Digits(v) == IF v < 0 THEN <<45>> \o NatDigits(-v) ELSE NatDigits(v)

\* the bytes standard output receives for chr(c)
Utf8(c) ==
    IF c < 128 THEN <<c>>
    ELSE IF c < 2048 THEN <<192 + (c \div 64), 128 + (c % 64)>>
    ELSE IF c < 65536 THEN <<224 + (c \div 4096), 128 + ((c \div 64) % 64), 128 + (c % 64)>>
    ELSE <<240 + (c \div 262144), 128 + ((c \div 4096) % 64), 128 + ((c \div 64) % 64),
           128 + (c % 64)>>

\* run(): the scan that builds label_map; a later LABEL of the same name wins
build_label_map(data) ==
    LET names == {data[i].label : i \in {j \in 1..Len(data) : data[j].op = "LABEL"}}
    IN  [l \in names |->
            CHOOSE i \in 0..(Len(data) - 1) :
                /\ data[i + 1].op = "LABEL" /\ data[i + 1].label = l
                /\ \A j \in (i + 1)..(Len(data) - 1) :
                      ~(data[j + 1].op = "LABEL" /\ data[j + 1].label = l)]

EmptyMap == [x \in {} |-> 0]

Put(f, k, v) == [x \in DOMAIN f \cup {k} |-> IF x = k THEN v ELSE f[x]]

Raise(m, exception) == [m EXCEPT !.status = exception]

SetReg(m, r, v) == [m EXCEPT !.registers = Put(m.registers, r, v)]

\* a declaration that takes effect only for a register that has no value yet
DeclareMutOnce(m, op) ==
    IF op.args[1] \in DOMAIN m.registers THEN m ELSE SetReg(m, op.args[1], op.value)

\* REGISTER: registers[op[1]] = op[2]
Declare(m, op) == SetReg(m, op.args[1], op.value)

\* the comparison of EQ/JEQ, NE/JNE, GT/JGT, GE/JGE
CompareMutNegate(op, a, b) ==
    CASE op \in {"EQ", "JEQ"} -> a = b
      [] op \in {"NE", "JNE"} -> a # b
      [] op \in {"GT", "JGT"} -> a > b
      [] OTHER -> ~(a > b)

Compare(op, a, b) ==
    CASE op \in {"EQ", "JEQ"} -> a = b
      [] op \in {"NE", "JNE"} -> a # b
      [] op \in {"GT", "JGT"} -> a > b
      [] OTHER -> a >= b

\* the register a comparison writes its result to
CompareTarget(op) == op.args[1]

\* STORE and LOAD: `addr >= memory_size or addr < 0`
OutOfRangeMutInclusive(addr) == addr > memory_size \/ addr < 0

OutOfRange(addr) == addr >= memory_size \/ addr < 0

\* LOAD: memory.get(addr, 0)
memory_get(mem, addr) == IF addr \in DOMAIN mem THEN mem[addr] ELSE 0

\* STORE: the cell written
StoreCellMutNext(addr) == addr + 1

StoreCell(addr) == addr

\* DIV: int(a / b)
PyDiv(a, b) == Narrow(IntTrueDiv(Wide(a), b))

\* PUTC: the loop over op[1:]
RECURSIVE Putc(_, _)
Putc(args, m) ==
    IF args = <<>> THEN m
    ELSE IF Head(args) \notin DOMAIN m.registers THEN Raise(m, "KeyError")
    ELSE LET c == m.registers[Head(args)]
         IN  IF c < 0 \/ c > 1114111 THEN Raise(m, "ValueError")
             ELSE IF c >= 55296 /\ c <= 57343 THEN Raise(m, "UnicodeEncodeError")
             ELSE Putc(Tail(args), [m EXCEPT !.stdout = @ \o Utf8(c)])

\* run(): one turn of the while loop, on the machine m = [pc, registers, memory,
\* stdout, inpos, status]; "capped" marks a result beyond IntCap
Step(data, lmap, input, m) ==
    LET op == data[m.pc + 1]
        m1 == [m EXCEPT !.pc = m.pc + 1]
        R == m.registers
        Has(r) == r \in DOMAIN R
        a == op.args[1]
        b == op.args[2]
    IN  CASE op.op = "REGISTER" -> Declare(m1, op)
          [] op.op = "LABEL" -> m1
          [] op.op = "MOV" -> IF Has(b) THEN SetReg(m1, a, R[b]) ELSE Raise(m1, "KeyError")
          [] op.op = "ADD" ->
                IF ~(Has(a) /\ Has(b)) THEN Raise(m1, "KeyError")
                ELSE IF ~SumFits(R[a], R[b]) THEN Raise(m1, "capped")
                ELSE SetReg(m1, a, R[a] + R[b])
          [] op.op = "SUB" ->
                IF ~(Has(a) /\ Has(b)) THEN Raise(m1, "KeyError")
                ELSE IF ~SumFits(R[a], -R[b]) THEN Raise(m1, "capped")
                ELSE SetReg(m1, a, R[a] - R[b])
          [] op.op = "MUL" ->
                IF ~(Has(a) /\ Has(b)) THEN Raise(m1, "KeyError")
                ELSE IF ~ProductFits(R[a], R[b]) THEN Raise(m1, "capped")
                ELSE SetReg(m1, a, R[a] * R[b])
          [] op.op = "DIV" ->
                IF ~(Has(a) /\ Has(b)) THEN Raise(m1, "KeyError")
                ELSE IF R[b] = 0 THEN Raise(m1, "ZeroDivisionError")
                ELSE SetReg(m1, a, PyDiv(R[a], R[b]))
          [] op.op = "STORE" ->
                IF ~Has(b) THEN Raise(m1, "KeyError")
                ELSE IF OutOfRange(R[b]) THEN Raise(m1, "ValueError")
                ELSE IF ~Has(a) THEN Raise(m1, "KeyError")
                ELSE [m1 EXCEPT !.memory = Put(m.memory, StoreCell(R[b]), R[a])]
          [] op.op = "LOAD" ->
                IF ~Has(b) THEN Raise(m1, "KeyError")
                ELSE IF OutOfRange(R[b]) THEN Raise(m1, "ValueError")
                ELSE SetReg(m1, a, memory_get(m.memory, R[b]))
          [] op.op = "PRINT" ->
                IF Has(a) THEN [m1 EXCEPT !.stdout = @ \o Digits(R[a])]
                ELSE Raise(m1, "KeyError")
          [] op.op = "PUTC" -> Putc(op.args, m1)
          [] op.op = "GETC" ->
                IF m.inpos < Len(input)
                THEN [SetReg(m1, a, input[m.inpos + 1]) EXCEPT !.inpos = m.inpos + 1]
                ELSE Raise(m1, "TypeError")
          [] op.op \in {"EQ", "NE", "GT", "GE"} ->
                IF ~(Has(a) /\ Has(b)) THEN Raise(m1, "KeyError")
                ELSE SetReg(m1, CompareTarget(op), IF Compare(op.op, R[a], R[b]) THEN 1 ELSE 0)
          [] op.op \in {"JEQ", "JNE", "JGT", "JGE"} ->
                IF ~(Has(a) /\ Has(b)) THEN Raise(m1, "KeyError")
                ELSE IF ~Compare(op.op, R[a], R[b]) THEN m1
                ELSE IF op.label \in DOMAIN lmap THEN [m1 EXCEPT !.pc = lmap[op.label]]
                ELSE Raise(m1, "KeyError")
          [] OTHER ->
                IF op.label \in DOMAIN lmap THEN [m1 EXCEPT !.pc = lmap[op.label]]
                ELSE Raise(m1, "KeyError")

\* the machine of run() as the variables hold it
Machine ==
    [pc |-> pc, registers |-> registers, memory |-> memory, stdout |-> stdout,
     inpos |-> inpos, status |-> status]

\* a loop that leaves before the last instruction
InLoopMutEarly(pcv, data) == pcv + 1 < Len(data)

\* `while pc < len(data)`
InLoop(pcv, data) == pcv < Len(data)

\* one turn of `while pc < len(data)`, or the end of the loop
RunStep ==
    /\ phase = "run"
    /\ status = "running"
    /\ IF InLoop(pc, res.list)
       THEN LET m == Step(res.list, label_map, stdin, Machine)
            IN  /\ Len(trace) < MaxSteps
                /\ m.status # "capped"
                /\ pc' = m.pc
                /\ registers' = m.registers
                /\ memory' = m.memory
                /\ stdout' = m.stdout
                /\ inpos' = m.inpos
                /\ status' = m.status
                /\ trace' = Append(trace, [ins |-> res.list[pc + 1], pc |-> pc,
                                           registers |-> registers, memory |-> memory])
       ELSE /\ status' = "done"
            /\ UNCHANGED <<pc, registers, memory, stdout, inpos, trace>>
    /\ UNCHANGED <<source, to_c_flag, stdin, phase, lineno, register_names, label_names, p,
                   parser_error, stderr, res, label_map, c_text, native, chop,
                   calls>>

---------------------------------------------------------------------------
(* to_c(): the listing, one record for each printed line *)

CLine(kind, a, b, cond, target, value, semi) ==
    [kind |-> kind, a |-> a, b |-> b, cond |-> cond, target |-> target, value |-> value,
     semi |-> semi]

\* str.split(sep): the pieces of a text between the occurrences of sep
RECURSIVE Split(_, _)
Split(text, sep) ==
    IF \A i \in 1..Len(text) : text[i] # sep
    THEN <<text>>
    ELSE LET k == CHOOSE i \in 1..Len(text) :
                      text[i] = sep /\ \A j \in 1..(i - 1) : text[j] # sep
         IN  <<SubSeq(text, 1, k - 1)>> \o Split(SubSeq(text, k + 1, Len(text)), sep)

\* sep.join(parts)
RECURSIVE Join(_, _)
Join(parts, sep) ==
    IF parts = <<>> THEN <<>>
    ELSE IF Len(parts) = 1 THEN parts[1]
    ELSE parts[1] \o <<sep>> \o Join(Tail(parts), sep)

\* the string p_label builds for a label: label + '-' + p[3], segment after segment
LabelText(label) == Join([i \in 1..Len(label) |-> Spelling[label[i]]], "-")

\* a renaming that takes the hyphens out and puts nothing in their place
c_labelMutDrop(label) == SelectSeq(LabelText(label), LAMBDA c : c # "-")

\* c_label: '_'.join(label.split('-')), on the characters of the label
c_label(label) == Join(Split(LabelText(label), "-"), "_")

NoTarget == <<>>

Plain(kind) == CLine(kind, "", "", "", NoTarget, 0, FALSE)

\* a first loop that prints a declaration for every REGISTER instruction
DeclaredNamesMutAll(data) ==
    LET IsRegister(op) == op.op = "REGISTER"
        regs == SelectSeq(data, IsRegister)
    IN  [i \in 1..Len(regs) |-> regs[i].args[1]]

\* to_c(): the first loop, `int <name>;` for each first occurrence of a register name
RECURSIVE DeclaredNames(_)
DeclaredNames(data) ==
    IF data = <<>> THEN <<>>
    ELSE LET before == DeclaredNames(Front(data))
             op == Last(data)
         IN  IF op.op = "REGISTER" /\ ~Contains(before, op.args[1])
             THEN Append(before, op.args[1])
             ELSE before

DeclarationLines(data) ==
    [i \in 1..Len(DeclaredNames(data)) |->
        CLine("decl", DeclaredNames(data)[i], "", "", NoTarget, 0, TRUE)]

need_memory(data) == \E i \in 1..Len(data) : data[i].op \in {"STORE", "LOAD"}

\* ternary_operator: the printed line has no closing semicolon
ternary_operator(op, cond) == CLine("ternary", op.args[1], op.args[2], cond, NoTarget, 0, FALSE)

conditional_jump(op, cond) ==
    CLine("if_goto", op.args[1], op.args[2], cond, c_label(op.label), 0, TRUE)

\* to_c(): the lines the second loop prints for one instruction
StatementLines(op) ==
    CASE op.op = "REGISTER" -> <<CLine("assign_const", op.args[1], "", "", NoTarget, op.value, TRUE)>>
      [] op.op = "LABEL" -> <<CLine("label", "", "", "", c_label(op.label), 0, FALSE)>>
      [] op.op = "MOV" -> <<CLine("assign", op.args[1], op.args[2], "=", NoTarget, 0, TRUE)>>
      [] op.op = "ADD" -> <<CLine("compound", op.args[1], op.args[2], "+=", NoTarget, 0, TRUE)>>
      [] op.op = "SUB" -> <<CLine("compound", op.args[1], op.args[2], "-=", NoTarget, 0, TRUE)>>
      [] op.op = "MUL" -> <<CLine("compound", op.args[1], op.args[2], "*=", NoTarget, 0, TRUE)>>
      [] op.op = "DIV" -> <<CLine("compound", op.args[1], op.args[2], "/=", NoTarget, 0, TRUE)>>
      [] op.op = "STORE" -> <<CLine("store", op.args[1], op.args[2], "", NoTarget, 0, TRUE)>>
      [] op.op = "LOAD" -> <<CLine("load", op.args[1], op.args[2], "", NoTarget, 0, TRUE)>>
      [] op.op = "PRINT" -> <<CLine("printf", op.args[1], "", "", NoTarget, 0, TRUE)>>
      [] op.op = "PUTC" ->
            [i \in 1..Len(op.args) |-> CLine("putchar", op.args[i], "", "", NoTarget, 0, TRUE)]
      [] op.op = "GETC" -> <<CLine("getchar", op.args[1], "", "", NoTarget, 0, TRUE)>>
      [] op.op = "EQ" -> <<ternary_operator(op, "==")>>
      [] op.op = "JEQ" -> <<conditional_jump(op, "==")>>
      [] op.op = "NE" -> <<ternary_operator(op, "!=")>>
      [] op.op = "JNE" -> <<conditional_jump(op, "!=")>>
      [] op.op = "GT" -> <<ternary_operator(op, ">")>>
      [] op.op = "JGT" -> <<conditional_jump(op, ">")>>
      [] op.op = "GE" -> <<ternary_operator(op, ">=")>>
      [] op.op = "JGE" -> <<conditional_jump(op, ">=")>>
      [] op.op = "JMP" -> <<CLine("goto", "", "", "", c_label(op.label), 0, TRUE)>>
      [] OTHER -> <<>>

RECURSIVE Statements(_)
Statements(data) ==
    IF data = <<>> THEN <<>> ELSE Statements(Front(data)) \o StatementLines(Last(data))

\* to_c(): everything it prints
to_c(data) ==
    <<Plain("preamble")>> \o DeclarationLines(data) \o <<Plain("blank")>>
        \o (IF need_memory(data) THEN <<Plain("memory")>> ELSE <<>>)
        \o Statements(data) \o <<Plain("return")>>

---------------------------------------------------------------------------
(* __main__ *)

\* `if res:`: None and the empty list are both false
TruthyResult(r) == ~r.none /\ r.list # <<>>

IdleNative ==
    [pc |-> 0, vars |-> EmptyMap, mem |-> EmptyMap, out |-> <<>>, inpos |-> 0,
     status |-> "none", steps |-> 0]

\* __main__: the branch on res and on args.to_c; run() starts with pc = 0 and
\* empty registers and memory
Main ==
    /\ phase = "main"
    /\ IF ~TruthyResult(res)
       THEN /\ phase' = "exit"
            /\ UNCHANGED <<pc, registers, memory, label_map, status>>
       ELSE IF to_c_flag
       THEN /\ phase' = "to_c"
            /\ UNCHANGED <<pc, registers, memory, label_map, status>>
       ELSE /\ phase' = "run"
            /\ label_map' = build_label_map(res.list)
            /\ pc' = 0
            /\ registers' = EmptyMap
            /\ memory' = EmptyMap
            /\ status' = "running"
    /\ UNCHANGED <<source, to_c_flag, stdin, lineno, register_names, label_names, p,
                   parser_error, stderr, res, stdout, inpos, trace, c_text, native, chop,
                   calls>>

ToC ==
    /\ phase = "to_c"
    /\ c_text' = to_c(res.list)
    /\ phase' = "build"
    /\ UNCHANGED <<source, to_c_flag, stdin, lineno, register_names, label_names, p,
                   parser_error, stderr, res, pc, registers, memory, label_map, stdout, inpos,
                   status, trace, native, chop,
                   calls>>

---------------------------------------------------------------------------
(* The emitted program under the target's semantics: it is built, and when *)
(* it builds it runs statement by statement on 32-bit ints.  Behaviour the *)
(* target leaves undefined is a choice between a crash and going on.       *)

INT_MAX == 2147483647

\* what an uninitialised int, or a read outside the buffer, may hold
Indeterminate == {0, 3}

Identifiers(text) == {text[i].a : i \in {j \in 1..Len(text) : text[j].kind = "decl"}}

LabelLines(text, target) == {i \in 1..Len(text) : text[i].kind = "label" /\ text[i].target = target}

\* does the listing build?  every statement is closed by `;`, every name is
\* declared, every label is defined once and every goto has its label
Builds(text) ==
    \A i \in 1..Len(text) :
        LET ln == text[i]
        IN  /\ ln.kind \notin {"preamble", "blank", "memory", "label", "return"} => ln.semi
            /\ ln.a # "" => ln.a \in Identifiers(text)
            /\ ln.b # "" => ln.b \in Identifiers(text)
            /\ ln.kind = "label" => Cardinality(LabelLines(text, ln.target)) = 1
            /\ ln.kind \in {"goto", "if_goto"} => LabelLines(text, ln.target) # {}

IntSumFits(a, b) == IF a >= 0 THEN b <= INT_MAX - a ELSE b >= ((-INT_MAX) - 1) - a

IntProductFits(a, b) == a = 0 \/ b = 0 \/ Abs(b) <= INT_MAX \div Abs(a)

\* the target's `/`: the quotient truncated toward zero
CDiv(a, b) == IF (a < 0) # (b < 0) THEN -(Abs(a) \div Abs(b)) ELSE Abs(a) \div Abs(b)

SetVar(n, x, v) == [n EXCEPT !.vars = Put(n.vars, x, v)]

CCompare(cond, a, b) ==
    CASE cond = "==" -> a = b
      [] cond = "!=" -> a # b
      [] cond = ">" -> a > b
      [] OTHER -> a >= b

\* the states one statement of the built program can lead to; an int that was
\* never assigned is read as any of the Indeterminate values
NativeNext(text, input, n) ==
    LET ln == text[n.pc]
        adv == [n EXCEPT !.pc = n.pc + 1, !.steps = n.steps + 1]
        crash == [adv EXCEPT !.status = "crash"]
        garbage == {SetVar(adv, ln.a, g) : g \in Indeterminate}
        Read(x) == IF x \in DOMAIN n.vars THEN {n.vars[x]} ELSE Indeterminate
        jump == [adv EXCEPT !.pc = CHOOSE i \in LabelLines(text, ln.target) : TRUE]
    IN  CASE ln.kind \in {"preamble", "decl", "blank", "memory", "label"} -> {adv}
          [] ln.kind = "assign_const" -> {SetVar(adv, ln.a, ln.value)}
          [] ln.kind = "assign" -> {SetVar(adv, ln.a, y) : y \in Read(ln.b)}
          [] ln.kind = "compound" ->
                UNION {
                    CASE ln.cond = "+=" ->
                            IF IntSumFits(x, y) THEN {SetVar(adv, ln.a, x + y)}
                            ELSE {crash} \cup garbage
                      [] ln.cond = "-=" ->
                            IF IntSumFits(x, -y) THEN {SetVar(adv, ln.a, x - y)}
                            ELSE {crash} \cup garbage
                      [] ln.cond = "*=" ->
                            IF IntProductFits(x, y) THEN {SetVar(adv, ln.a, x * y)}
                            ELSE {crash} \cup garbage
                      [] OTHER ->
                            IF y # 0 THEN {SetVar(adv, ln.a, CDiv(x, y))}
                            ELSE {crash} \cup garbage
                    : x \in Read(ln.a), y \in Read(ln.b)}
          [] ln.kind = "store" ->
                UNION {
                    IF y >= 0 /\ y < memory_size THEN {[adv EXCEPT !.mem = Put(n.mem, y, x)]}
                    ELSE {crash, adv}
                    : x \in Read(ln.a), y \in Read(ln.b)}
          [] ln.kind = "load" ->
                UNION {
                    IF y >= 0 /\ y < memory_size THEN {SetVar(adv, ln.a, memory_get(n.mem, y))}
                    ELSE {crash} \cup garbage
                    : y \in Read(ln.b)}
          [] ln.kind = "printf" -> {[adv EXCEPT !.out = @ \o Digits(x)] : x \in Read(ln.a)}
          [] ln.kind = "putchar" -> {[adv EXCEPT !.out = Append(@, x % 256)] : x \in Read(ln.a)}
          [] ln.kind = "getchar" ->
                IF n.inpos < Len(input)
                THEN {[SetVar(adv, ln.a, input[n.inpos + 1]) EXCEPT !.inpos = n.inpos + 1]}
                ELSE {SetVar(adv, ln.a, -1)}
          [] ln.kind = "ternary" ->
                {SetVar(adv, ln.a, IF CCompare(ln.cond, x, y) THEN 1 ELSE 0) :
                    x \in Read(ln.a), y \in Read(ln.b)}
          [] ln.kind = "if_goto" ->
                {IF CCompare(ln.cond, x, y) THEN jump ELSE adv : x \in Read(ln.a), y \in Read(ln.b)}
          [] ln.kind = "goto" -> {jump}
          [] OTHER -> {[adv EXCEPT !.status = "exit0"]}

NativeBuild ==
    /\ phase = "build"
    /\ phase' = "native"
    /\ IF Builds(c_text)
       THEN native' = [IdleNative EXCEPT !.pc = 1, !.status = "running"]
       ELSE native' = [IdleNative EXCEPT !.status = "compile_error"]
    /\ UNCHANGED <<source, to_c_flag, stdin, lineno, register_names, label_names, p,
                   parser_error, stderr, res, pc, registers, memory, label_map, stdout, inpos,
                   status, trace, c_text, chop,
                   calls>>

NativeStep ==
    /\ phase = "native"
    /\ native.status = "running"
    /\ native.steps < MaxSteps + Len(c_text)
    /\ native' \in NativeNext(c_text, stdin, native)
    /\ UNCHANGED <<source, to_c_flag, stdin, phase, lineno, register_names, label_names, p,
                   parser_error, stderr, res, pc, registers, memory, label_map, stdout, inpos,
                   status, trace, c_text, chop,
                   calls>>

---------------------------------------------------------------------------
(* Specifications *)

\* parse() is called once, by __main__
NoCalls == [pending |-> <<>>, returned |-> <<>>]

IdleChop == [a |-> Wide(0), b |-> 1, r |-> Wide(0), done |-> FALSE]

\* the state of the process when __main__ has read the file `lines`
Start(lines, flag, input) ==
    /\ source = lines
    /\ to_c_flag = flag
    /\ stdin = input
    /\ phase = "start"
    /\ lineno = 1
    /\ register_names = <<>>
    /\ label_names = <<>>
    /\ p = NoneProgram
    /\ parser_error = 0
    /\ stderr = <<>>
    /\ res = NoneProgram
    /\ pc = 0
    /\ registers = EmptyMap
    /\ memory = EmptyMap
    /\ label_map = EmptyMap
    /\ stdout = <<>>
    /\ inpos = 0
    /\ status = "idle"
    /\ trace = <<>>
    /\ c_text = <<>>
    /\ native = IdleNative

SeqsUpTo(S, n) == UNION {[1..k -> S] : k \in 1..n}

\* the lines of the sources of Spec: declarations, labels, commands on declared
\* and undeclared registers, a blank line and two lines that are no line
ParserLines ==
    {DeclLine("a", <<>>, "P"), DeclLine("absent", <<>>, "Q"), DeclLine("NUMBER", <<7>>, "P"),
     LabelLine(FALSE, <<"P", "Q">>), LabelLine(TRUE, <<"P", "Q">>),
     CmdLine("Print", <<"P">>, NoSegs, FALSE, FALSE),
     CmdLine("Append", <<"P", "Q">>, NoSegs, FALSE, FALSE),
     CmdLine("Compare", <<"P", "Q">>, NoSegs, FALSE, TRUE),
     CmdLine("Jump", <<>>, <<"P", "Q">>, FALSE, FALSE),
     CmdLine("Print", <<"P", "Q">>, NoSegs, FALSE, FALSE),
     BlankLine, GarbageLine, JunkLine}

Init ==
    /\ \E lines \in SeqsUpTo(ParserLines, MaxLines), flag \in BOOLEAN :
          Start(lines, flag, <<>>)
    /\ chop = IdleChop
    /\ calls = NoCalls

Next ==
    \/ ParseBegin
    \/ ParseLine
    \/ ParseEnd
    \/ Main
    \/ RunStep
    \/ ToC
    \/ NativeBuild
    \/ NativeStep

Spec == Init /\ [][Next]_vars

\* sources that declare P and Q and go on with a body of commands
\* the digits a source spells the number v with
RECURSIVE Literal(_)
Literal(v) == IF v < 10 THEN <<v>> ELSE Append(Literal(v \div 10), v % 10)

Prologue(v1, v2) ==
    <<DeclLine("NUMBER", Literal(v1), "P"), DeclLine("NUMBER", Literal(v2), "Q")>>

RegisterPairs == {<<"P", "P">>, <<"P", "Q">>, <<"Q", "P">>, <<"Q", "Q">>}

\* labels and jumps over declared registers
LabelBodyLines ==
    {LabelLine(FALSE, <<"P", "Q">>), LabelLine(TRUE, <<"P", "Q">>),
     LabelLine(FALSE, <<"Q", "P">>), LabelLine(FALSE, <<"P", "Q", "P">>),
     CmdLine("Jump", <<>>, <<"P", "Q">>, FALSE, FALSE),
     CmdLine("Compare", <<"P", "Q">>, <<"Q", "P">>, TRUE, FALSE),
     CmdLine("Print", <<"P">>, NoSegs, FALSE, FALSE),
     CmdLine("Append", <<"P", "Q">>, NoSegs, FALSE, FALSE)}

InitLabels ==
    /\ \E body \in SeqsUpTo(LabelBodyLines, MaxBody), flag \in BOOLEAN :
          Start(Prologue(1, 0) \o body, flag, <<>>)
    /\ chop = IdleChop
    /\ calls = NoCalls

SpecLabels == InitLabels /\ [][Next]_vars

\* the four comparisons on every pair of declared registers
CompareValues == {0, 2, 7}

CompareBodyLines ==
    {CmdLine(c, r, NoSegs, FALSE, q) : c \in {"Compare", "Superior"}, r \in RegisterPairs,
                                       q \in BOOLEAN}
        \cup {CmdLine("Print", <<"P">>, NoSegs, FALSE, FALSE)}

InitCompare ==
    /\ \E v1 \in CompareValues, v2 \in CompareValues, flag \in BOOLEAN :
          \E body \in SeqsUpTo(CompareBodyLines, MaxBody) :
              Start(Prologue(v1, v2) \o body, flag, <<>>)
    /\ chop = IdleChop
    /\ calls = NoCalls

SpecCompare == InitCompare /\ [][Next]_vars

\* stores and loads through addresses at both ends of the range and beyond
MemoryValues == {0, 1, memory_size}

MemoryBodyLines ==
    {CmdLine(c, r, NoSegs, FALSE, FALSE) : c \in {"Push", "Pull"}, r \in RegisterPairs}
        \cup {CmdLine("Rip", <<"P", "Q">>, NoSegs, FALSE, FALSE)}

InitMemory ==
    /\ \E v1 \in MemoryValues, v2 \in MemoryValues, flag \in BOOLEAN :
          \E body \in SeqsUpTo(MemoryBodyLines, MaxBody + 1) :
              Start(Prologue(v1, v2) \o body, flag, <<>>)
    /\ chop = IdleChop
    /\ calls = NoCalls

SpecMemory == InitMemory /\ [][Next]_vars

\* one DIV on wide operands
WideOne(zeros, low) == [neg |-> FALSE, bits |-> <<1>> \o Zeros(zeros) \o low]

Negated(w) == [w EXCEPT !.neg = TRUE]

ChopDividends ==
    {Wide(v) : v \in {-9, -7, -2, -1, 0, 1, 2, 7, 9}}
        \cup {WideOne(MantissaBits - 1, <<0>>), WideOne(MantissaBits - 1, <<1>>),
              Negated(WideOne(MantissaBits - 1, <<1>>)), WideOne(MantissaBits - 2, <<1, 0>>)}

ChopDivisors == {-2, -1, 1, 2, 3}

\* run(): the DIV branch, on the operands chop.a and chop.b
Chop ==
    /\ ~chop.done
    /\ chop' = [chop EXCEPT !.r = IntTrueDiv(chop.a, chop.b), !.done = TRUE]
    /\ UNCHANGED <<source, to_c_flag, stdin, phase, lineno, register_names, label_names, p,
                   parser_error, stderr, res, pc, registers, memory, label_map, stdout, inpos,
                   status, trace, c_text, native, calls>>

InitChop ==
    /\ Start(<<BlankLine>>, FALSE, <<>>)
    /\ calls = NoCalls
    /\ \E a \in ChopDividends, b \in ChopDivisors :
          chop = [a |-> a, b |-> b, r |-> Wide(0), done |-> FALSE]

NextChop == Chop

SpecChop == InitChop /\ [][NextChop]_vars

\* the interpreter alone on sources with a label, a jump to it, declarations
\* before and after them and uses of the declared registers
JumpLines ==
    {DeclLine("absent", <<>>, "P"), DeclLine("a", <<>>, "Q"),
     LabelLine(FALSE, <<"P", "P">>),
     CmdLine("Jump", <<>>, <<"P", "P">>, FALSE, FALSE),
     CmdLine("Print", <<"Q">>, NoSegs, FALSE, FALSE),
     CmdLine("Append", <<"Q", "Q">>, NoSegs, FALSE, FALSE)}

InitJump ==
    /\ \E lines \in SeqsUpTo(JumpLines, MaxLines + 2) : Start(lines, FALSE, <<>>)
    /\ chop = IdleChop
    /\ calls = NoCalls

NextRun ==
    \/ ParseBegin
    \/ ParseLine
    \/ ParseEnd
    \/ Main
    \/ RunStep

SpecJump == InitJump /\ [][NextRun]_vars

\* the shorter of these sources, with a process that is never left waiting:
\* the interpreter takes its next step whenever it has one
InitLoop ==
    /\ \E lines \in SeqsUpTo(JumpLines, MaxLines) : Start(lines, FALSE, <<>>)
    /\ chop = IdleChop
    /\ calls = NoCalls

SpecJumpFair == InitLoop /\ [][NextRun]_vars /\ WF_vars(NextRun)

\* the conditional jumps on two registers, to a label that exists and to one
\* that does not
BranchValues == {0, 2, 7}

BranchLines ==
    {CmdLine(c, <<"P", "Q">>, <<"P", "Q">>, TRUE, q) : c \in {"Compare", "Superior"},
                                                       q \in BOOLEAN}
        \cup {CmdLine("Compare", <<"Q", "P">>, <<"Q", "P">>, TRUE, FALSE),
              LabelLine(FALSE, <<"P", "Q">>),
              CmdLine("Print", <<"P">>, NoSegs, FALSE, FALSE)}

InitBranch ==
    /\ \E v1 \in BranchValues, v2 \in BranchValues, flag \in BOOLEAN :
          \E body \in SeqsUpTo(BranchLines, MaxBody + 1) :
              Start(Prologue(v1, v2) \o body, flag, <<>>)
    /\ chop = IdleChop
    /\ calls = NoCalls

SpecBranch == InitBranch /\ [][Next]_vars

\* declarations with every spelling of the number
DeclareLines ==
    {DeclLine(n, <<>>, r) : n \in {"absent", "no", "a", "an"}, r \in {"P", "Q"}}
        \cup {DeclLine("NUMBER", d, "P") : d \in {<<0>>, <<7>>, <<0, 7>>, <<1, 0>>, <<2, 0, 5>>}}
        \cup {CmdLine("Print", <<"P">>, NoSegs, FALSE, FALSE)}

InitDeclare ==
    /\ \E lines \in SeqsUpTo(DeclareLines, MaxLines), flag \in BOOLEAN :
          Start(lines, flag, <<>>)
    /\ chop = IdleChop
    /\ calls = NoCalls

SpecDeclare == InitDeclare /\ [][Next]_vars

\* lists with a register declared twice, with and without STORE and LOAD, and
\* with a PUTC of two registers
LowerLines ==
    {DeclLine("a", <<>>, "P"), DeclLine("NUMBER", <<7>>, "P"), DeclLine("absent", <<>>, "Q"),
     CmdLine("Push", <<"P", "P">>, NoSegs, FALSE, FALSE),
     CmdLine("Pull", <<"Q", "P">>, NoSegs, FALSE, FALSE),
     CmdLine("Put", <<"P", "Q">>, NoSegs, FALSE, FALSE),
     CmdLine("Print", <<"P">>, NoSegs, FALSE, FALSE),
     LabelLine(FALSE, <<"P", "Q">>)}

InitLower ==
    /\ \E lines \in SeqsUpTo(LowerLines, MaxLines), flag \in BOOLEAN :
          Start(lines, flag, <<>>)
    /\ chop = IdleChop
    /\ calls = NoCalls

SpecLower == InitLower /\ [][Next]_vars

\* sources that declare P, Q and PQ and go on with labels and jumps whose
\* names differ in where the hyphens stand
RenameLines ==
    {LabelLine(FALSE, <<"P", "Q">>), LabelLine(FALSE, <<"Q", "P">>),
     LabelLine(FALSE, <<"PQ", "P">>), LabelLine(FALSE, <<"P", "PQ">>),
     LabelLine(FALSE, <<"P", "Q", "P">>),
     CmdLine("Jump", <<>>, <<"P", "Q">>, FALSE, FALSE),
     CmdLine("Compare", <<"P", "Q">>, <<"Q", "P">>, TRUE, FALSE)}

InitRename ==
    /\ \E body \in SeqsUpTo(RenameLines, MaxBody), flag \in BOOLEAN :
          Start(Prologue(1, 0) \o <<DeclLine("NUMBER", <<2>>, "PQ")>> \o body, flag, <<>>)
    /\ chop = IdleChop
    /\ calls = NoCalls

SpecRename == InitRename /\ [][Next]_vars

\* a caller that passes one text to parse(), then another, then the first
\* again; what a call printed is kept with its result
TextLines ==
    {DeclLine("absent", <<>>, "P"), CmdLine("Print", <<"P">>, NoSegs, FALSE, FALSE),
     LabelLine(FALSE, <<"P", "P">>), BlankLine, GarbageLine, JunkLine}

ParseAgain ==
    /\ phase = "main"
    /\ calls.pending # <<>>
    /\ calls' = [pending |-> Tail(calls.pending),
                 returned |-> Append(calls.returned,
                                     [source |-> source, res |-> res, stderr |-> stderr])]
    /\ source' = Head(calls.pending)
    /\ stderr' = <<>>
    /\ phase' = "start"
    /\ UNCHANGED <<to_c_flag, stdin, lineno, register_names, label_names, p, parser_error,
                   res, pc, registers, memory, label_map, stdout, inpos, status, trace,
                   c_text, native, chop>>

InitTwice ==
    /\ \E first \in SeqsUpTo(TextLines, MaxBody), other \in SeqsUpTo(TextLines, MaxBody) :
          /\ Start(first, FALSE, <<>>)
          /\ calls = [pending |-> <<other, first>>, returned |-> <<>>]
    /\ chop = IdleChop

NextTwice ==
    \/ ParseBegin
    \/ ParseLine
    \/ ParseEnd
    \/ ParseAgain

SpecTwice == InitTwice /\ [][NextTwice]_vars

---------------------------------------------------------------------------
(* Claims about parse() and __main__ *)

ParseDone == phase \notin {"start", "parse", "hung"}

BackendInvoked == phase \in {"run", "to_c", "build", "native"}

\* the shapes the grammar accepts, read off the source text alone
WellFormed(line) ==
    \/ line.kind \in {"blank", "decl"}
    \/ line.kind = "label" /\ Len(line.label) >= 2
    \/ /\ line.kind = "cmd"
       /\ \/ /\ line.cmd \in {"Replace", "Append", "Rip", "Multiply", "Chop", "Push", "Pull"}
             /\ Len(line.regs) = 2 /\ line.label = NoSegs /\ ~line.bang /\ ~line.quest
          \/ /\ line.cmd \in {"Print", "Pick"}
             /\ Len(line.regs) = 1 /\ line.label = NoSegs /\ ~line.bang /\ ~line.quest
          \/ /\ line.cmd = "Put"
             /\ Len(line.regs) >= 1 /\ line.label = NoSegs /\ ~line.bang /\ ~line.quest
          \/ /\ line.cmd \in {"Compare", "Superior"}
             /\ Len(line.regs) = 2
             /\ \/ line.label = NoSegs /\ ~line.bang
                \/ Len(line.label) >= 2 /\ line.bang
          \/ /\ line.cmd = "Jump"
             /\ Len(line.regs) = 0 /\ Len(line.label) >= 2 /\ ~line.bang /\ ~line.quest

NoSyntaxError == \A i \in 1..Len(source) : WellFormed(source[i])

DeclaredBefore(i) == {source[j].name : j \in {k \in 1..(i - 1) : source[k].kind = "decl"}}

ReferencesOf(i) ==
    IF source[i].kind \in {"label", "cmd"}
    THEN {source[i].regs[k] : k \in 1..Len(source[i].regs)}
            \cup {source[i].label[k] : k \in 1..Len(source[i].label)}
    ELSE {}

HasUndeclaredReference(i) == ReferencesOf(i) \ DeclaredBefore(i) # {}

Reported(i, msg, text) == \E k \in 1..Len(stderr) : stderr[k] = Diag(i, msg, text)

\* the instructions of the lines 1..n that reference no undeclared register
RECURSIVE KeptInstructions(_)
KeptInstructions(n) ==
    IF n = 0 THEN <<>>
    ELSE KeptInstructions(n - 1) \o
            (IF source[n].kind \in {"decl", "label", "cmd"} /\ ~HasUndeclaredReference(n)
             THEN <<p_line(source[n], <<>>)>>
             ELSE <<>>)

\* C2: in a source without syntax errors every label or command line that
\* references a register not declared on an earlier line is reported and adds
\* no instruction: parse() returns exactly the instructions of the other lines.
C2_UndeclaredLinesDropped ==
    (ParseDone /\ NoSyntaxError) =>
        /\ res = Program(KeptInstructions(Len(source)))
        /\ \A i \in 1..Len(source) : HasUndeclaredReference(i) =>
              \E r \in ReferencesOf(i) : Reported(i, "is an undeclared register", <<r>>)

\* C3: when some line is syntactically invalid parse() returns None and no
\* backend is invoked; a backend is invoked only after a parse that did not fail.
C3_SyntaxErrorFailsParse ==
    /\ (ParseDone /\ ~NoSyntaxError) =>
          res.none /\ ~BackendInvoked /\ status = "idle" /\ c_text = <<>>
    /\ BackendInvoked => ~res.none /\ NoSyntaxError

\* C4: a source whose lines all match the grammar parses to an instruction
\* list whatever naming, undeclared-register and label warnings it draws, and
\* the error flag is set only once a line that matches no production was read.
C4_SemanticDiagnosticsNeverFail ==
    /\ (ParseDone /\ NoSyntaxError) => ~res.none /\ parser_error = 0
    /\ (phase # "start" /\ parser_error # 0) =>
          \E i \in 1..(lineno - 1) : ~WellFormed(source[i])

\* a parse that drew a naming warning and an undeclared-register warning and
\* read the same label twice, and returned a list
C4_Witness ==
    /\ ParseDone
    /\ ~res.none
    /\ \E k \in 1..Len(stderr) : stderr[k].msg = "does not include 'p' or 'P'"
    /\ \E k \in 1..Len(stderr) : stderr[k].msg = "is an undeclared register"
    /\ \E i, j \in 1..Len(source) :
          i < j /\ source[i].kind = "label" /\ source[j].kind = "label"
               /\ source[i].label = source[j].label

LabelLinesOf(l) == {i \in 1..Len(source) : source[i].kind = "label" /\ source[i].label = l}

LabelWarnings(l) ==
    {k \in 1..Len(stderr) : stderr[k].msg = "label already exists" /\ stderr[k].text = l}

\* C5: every label line whose name an earlier label line declared draws one
\* "label already exists" warning, a first declaration draws none, and the
\* parse is not failed.
C5_DuplicateLabelWarned ==
    (ParseDone /\ NoSyntaxError) =>
        /\ ~res.none
        /\ \A i \in 1..Len(source) : source[i].kind = "label" =>
              Cardinality(LabelWarnings(source[i].label))
                  = Cardinality(LabelLinesOf(source[i].label)) - 1

\* C10: in a source without syntax errors a register reference on line i is
\* reported as undeclared exactly when no declaration of that name stands on a
\* line before i.
C10_UndeclaredFollowsTextualOrder ==
    (ParseDone /\ NoSyntaxError) =>
        \A i \in 1..Len(source) : \A r \in ReferencesOf(i) :
            Reported(i, "is an undeclared register", <<r>>) <=> r \notin DeclaredBefore(i)

\* a register used on a line before its declaration and again after it: the
\* first use is reported, the second is not
C10_Witness ==
    /\ ParseDone
    /\ NoSyntaxError
    /\ \E i, j, k \in 1..Len(source) :
          /\ i < j /\ j < k
          /\ source[j].kind = "decl"
          /\ source[j].name \in ReferencesOf(i) \cap ReferencesOf(k)
          /\ source[j].name \notin DeclaredBefore(j)
          /\ Reported(i, "is an undeclared register", <<source[j].name>>)
          /\ ~Reported(k, "is an undeclared register", <<source[j].name>>)

---------------------------------------------------------------------------
(* Claims about run() and to_c() *)

\* run() on the list `data` from its first instruction to its end
RECURSIVE RunToEnd(_, _, _, _, _)
RunToEnd(data, lmap, input, m, fuel) ==
    IF m.status # "running" THEN m
    ELSE IF m.pc >= Len(data) THEN [m EXCEPT !.status = "done"]
    ELSE IF fuel = 0 THEN [m EXCEPT !.status = "fuel"]
    ELSE RunToEnd(data, lmap, input, Step(data, lmap, input, m), fuel - 1)

Interpreted(data, input) ==
    RunToEnd(data, build_label_map(data), input,
             [pc |-> 0, registers |-> EmptyMap, memory |-> EmptyMap, stdout |-> <<>>,
              inpos |-> 0, status |-> "running"], MaxSteps)

\* C1: the program to_c() emits for a parsed list builds and, run on the same
\* input, prints what run() prints and ends as run() ends.
C1_LoweringPreservesBehaviour ==
    (phase = "native" /\ native.status # "running") =>
        LET m == Interpreted(res.list, stdin)
        IN  m.status \notin {"fuel", "capped"} =>
                /\ native.status # "compile_error"
                /\ native.out = m.stdout
                /\ (native.status = "exit0") <=> (m.status = "done")

\* the state of run() after its k-th executed instruction
RegistersAfter(k) == IF k < Len(trace) THEN trace[k + 1].registers ELSE registers
MemoryAfter(k) == IF k < Len(trace) THEN trace[k + 1].memory ELSE memory

\* did the k-th executed instruction end without an exception?
Succeeded(k) == k < Len(trace) \/ status \in {"running", "done"}

Holds(op, x, y) ==
    \/ op = "EQ" /\ x = y
    \/ op = "NE" /\ x # y
    \/ op = "GT" /\ x > y
    \/ op = "GE" /\ x >= y

ComparisonStep(k) ==
    /\ trace[k].ins.op \in {"EQ", "NE", "GT", "GE"}
    /\ trace[k].ins.args[1] \in DOMAIN trace[k].registers
    /\ trace[k].ins.args[2] \in DOMAIN trace[k].registers

ComparisonResult(k) ==
    LET t == trace[k]
        a == t.ins.args[1]
        b == t.ins.args[2]
    IN  /\ RegistersAfter(k)[a] \in {0, 1}
        /\ RegistersAfter(k)[a] = 1 <=> Holds(t.ins.op, t.registers[a], t.registers[b])
        /\ DOMAIN RegistersAfter(k) = DOMAIN t.registers
        /\ \A r \in DOMAIN t.registers \ {a} : RegistersAfter(k)[r] = t.registers[r]
        /\ MemoryAfter(k) = t.memory

\* C6 as stated: EQ, NE, GT and GE leave 0 or 1 in the first operand, 1 iff the
\* comparison held before the step, and leave the second operand register,
\* every other register and memory unchanged, for every choice of operands.
C6_ComparisonKeepsSecondOperand ==
    \A k \in 1..Len(trace) : ComparisonStep(k) =>
        /\ ComparisonResult(k)
        /\ RegistersAfter(k)[trace[k].ins.args[2]] = trace[k].registers[trace[k].ins.args[2]]

\* C6 amended: the same, the second operand being unchanged when it is a
\* register other than the first.
C6_ComparisonWritesFirstOperand ==
    \A k \in 1..Len(trace) : ComparisonStep(k) => ComparisonResult(k)

\* a GE on two different registers that held, on a first operand that was neither 0 nor 1
C6_Witness ==
    \E k \in 1..Len(trace) :
        /\ ComparisonStep(k)
        /\ trace[k].ins.op = "GE"
        /\ trace[k].ins.args[1] # trace[k].ins.args[2]
        /\ trace[k].registers[trace[k].ins.args[1]] = trace[k].registers[trace[k].ins.args[2]]
        /\ trace[k].registers[trace[k].ins.args[1]] \notin {0, 1}
        /\ RegistersAfter(k)[trace[k].ins.args[1]] = 1

AddressOf(k) == trace[k].registers[trace[k].ins.args[2]]

AccessStep(k, op) ==
    /\ trace[k].ins.op = op
    /\ trace[k].ins.args[2] \in DOMAIN trace[k].registers

StoreThenLoad(i, j) ==
    /\ i < j
    /\ AccessStep(i, "STORE") /\ AccessStep(j, "LOAD")
    /\ Succeeded(j)
    /\ trace[i].ins.args[2] = trace[j].ins.args[2]
    /\ \A k \in i..j : trace[k].registers[trace[i].ins.args[2]] = AddressOf(i)
    /\ \A k \in (i + 1)..(j - 1) : ~(AccessStep(k, "STORE") /\ AddressOf(k) = AddressOf(i))

NeverStored(j) ==
    /\ AccessStep(j, "LOAD")
    /\ Succeeded(j)
    /\ \A i \in 1..(j - 1) : ~(AccessStep(i, "STORE") /\ AddressOf(i) = AddressOf(j))

\* C7: a LOAD through the register of an earlier STORE, the register unchanged
\* and no STORE to that address between them, yields the value stored; a LOAD
\* from an address no STORE has written yields 0.
C7_StoreThenLoad ==
    /\ \A i, j \in 1..Len(trace) : StoreThenLoad(i, j) =>
          RegistersAfter(j)[trace[j].ins.args[1]] = trace[i].registers[trace[i].ins.args[1]]
    /\ \A j \in 1..Len(trace) : NeverStored(j) => RegistersAfter(j)[trace[j].ins.args[1]] = 0

\* a non-zero value stored and loaded back into another register, with a STORE
\* to another address between the two
C7_Witness ==
    \E i, j \in 1..Len(trace) :
        /\ StoreThenLoad(i, j)
        /\ j > i + 1
        /\ AccessStep(i + 1, "STORE")
        /\ trace[i].ins.args[1] # trace[j].ins.args[1]
        /\ trace[i].registers[trace[i].ins.args[1]] # 0
        /\ RegistersAfter(j)[trace[j].ins.args[1]] = trace[i].registers[trace[i].ins.args[1]]

\* C8: a STORE or LOAD on an address below 0 or at or above 2^24 ends run()
\* with the fatal error, having written no register and no memory cell, and
\* nothing runs after it; an address within the range never raises it.
C8_AddressOutOfRangeIsFatal ==
    \A k \in 1..Len(trace) : (AccessStep(k, "STORE") \/ AccessStep(k, "LOAD")) =>
        IF AddressOf(k) < 0 \/ AddressOf(k) >= 16777216
        THEN /\ k = Len(trace)
             /\ status = "ValueError"
             /\ registers = trace[k].registers
             /\ memory = trace[k].memory
        ELSE ~(k = Len(trace) /\ status = "ValueError")

\* a STORE through a negative address, ended by the fatal error
C8_Witness ==
    /\ trace # <<>>
    /\ AccessStep(Len(trace), "STORE")
    /\ AddressOf(Len(trace)) < 0
    /\ status = "ValueError"

\* C9: DIV sets dst to the quotient of dst by src truncated toward zero, for
\* every pair of integers with src non-zero.
C9_DivTruncatesTowardZero ==
    chop.done => chop.r = TruncQuotient(chop.a, chop.b)

---------------------------------------------------------------------------
(* Claims about the control flow of run() *)

PcAfter(k) == IF k < Len(trace) THEN trace[k + 1].pc ELSE pc

\* C11: every execution of a REGISTER instruction, also one reached by a jump
\* back, leaves the register at the instruction's value and changes no other
\* register and no memory cell.
C11_DeclareTakesEffectEveryTime ==
    \A k \in 1..Len(trace) :
        trace[k].ins.op = "REGISTER" =>
            /\ Succeeded(k)
            /\ RegistersAfter(k) = Put(trace[k].registers, trace[k].ins.args[1], trace[k].ins.value)
            /\ RegistersAfter(k)[trace[k].ins.args[1]] = trace[k].ins.value
            /\ \A r \in DOMAIN trace[k].registers \ {trace[k].ins.args[1]} :
                  RegistersAfter(k)[r] = trace[k].registers[r]
            /\ MemoryAfter(k) = trace[k].memory

\* the same declaration executed a second time after a jump back, on a
\* register that held another value by then
C11_Witness ==
    \E i, j \in 1..Len(trace) :
        /\ i < j
        /\ trace[i].pc = trace[j].pc
        /\ trace[j].ins.op = "REGISTER"
        /\ \E k \in (i + 1)..(j - 1) : trace[k].ins.op = "JMP"
        /\ trace[j].ins.args[1] \in DOMAIN trace[j].registers
        /\ trace[j].registers[trace[j].ins.args[1]] # trace[j].ins.value
        /\ RegistersAfter(j)[trace[j].ins.args[1]] = trace[j].ins.value

---------------------------------------------------------------------------
(* Claims about declarations *)

\* the number a digit string denotes
DecimalValue(digits) ==
    LET n == Len(digits)
        Sum[i \in 0..n] == IF i = 0 THEN 0 ELSE Sum[i - 1] + digits[i] * 10^(n - i)
    IN  Sum[n]

\* the initial value the declaration on a line asks for
DeclaredValue(line) ==
    CASE line.num \in {"absent", "no"} -> 0
      [] line.num \in {"a", "an"} -> 1
      [] OTHER -> DecimalValue(line.digits)

\* every line of the source gave one instruction, in order
LineForLine == ~res.none /\ Len(res.list) = Len(source)

\* C12: a declaration line yields ('REGISTER', name, v) with v = 0 for no
\* number and for `no`, 1 for `a` and `an`, and the value of the digits
\* otherwise; once run() has executed the instruction the register holds v.
C12_DeclarationValue ==
    (ParseDone /\ LineForLine) =>
        /\ \A i \in 1..Len(source) :
              source[i].kind = "decl" =>
                  res.list[i] = Instr("REGISTER", <<source[i].name>>, NoSegs,
                                      DeclaredValue(source[i]))
        /\ \A k \in 1..Len(trace) :
              source[trace[k].pc + 1].kind = "decl" =>
                  /\ source[trace[k].pc + 1].name \in DOMAIN RegistersAfter(k)
                  /\ RegistersAfter(k)[source[trace[k].pc + 1].name] =
                        DeclaredValue(source[trace[k].pc + 1])

\* a run that executed declarations spelled `an`, `no` and with a digit
\* string that starts with 0
C12_Witness ==
    /\ phase = "run"
    /\ LineForLine
    /\ \E k \in 1..Len(trace) : source[trace[k].pc + 1].num = "an"
    /\ \E k \in 1..Len(trace) : source[trace[k].pc + 1].num = "no"
    /\ \E k \in 1..Len(trace) :
          /\ source[trace[k].pc + 1].num = "NUMBER"
          /\ Len(source[trace[k].pc + 1].digits) = 2
          /\ RegistersAfter(k)["P"] = 7

---------------------------------------------------------------------------
(* Claims about the listing of to_c() *)

Lowered == phase \in {"build", "native"}

IsDeclLine(l) == l.kind = "decl"

\* the index of the first REGISTER instruction of the list that names r
FirstDeclared(r) ==
    CHOOSE i \in 1..Len(res.list) :
        /\ res.list[i].op = "REGISTER" /\ res.list[i].args[1] = r
        /\ \A j \in 1..(i - 1) : ~(res.list[j].op = "REGISTER" /\ res.list[j].args[1] = r)

\* the number of lines an instruction is printed as
Width(op) == IF op.op = "PUTC" THEN Len(op.args) ELSE 1

\* the lines printed for the instructions before the i-th
WidthBefore(i) ==
    LET Sum[j \in 0..Len(res.list)] == IF j = 0 THEN 0 ELSE Sum[j - 1] + Width(res.list[j])
    IN  Sum[i - 1]

\* the instruction a printed statement stands for
Origin(l) ==
    CASE l.kind = "assign_const" -> "REGISTER"
      [] l.kind = "label" -> "LABEL"
      [] l.kind = "assign" -> "MOV"
      [] l.kind = "compound" /\ l.cond = "+=" -> "ADD"
      [] l.kind = "compound" /\ l.cond = "-=" -> "SUB"
      [] l.kind = "compound" /\ l.cond = "*=" -> "MUL"
      [] l.kind = "compound" /\ l.cond = "/=" -> "DIV"
      [] l.kind = "store" -> "STORE"
      [] l.kind = "load" -> "LOAD"
      [] l.kind = "printf" -> "PRINT"
      [] l.kind = "putchar" -> "PUTC"
      [] l.kind = "getchar" -> "GETC"
      [] l.kind = "ternary" /\ l.cond = "==" -> "EQ"
      [] l.kind = "ternary" /\ l.cond = "!=" -> "NE"
      [] l.kind = "ternary" /\ l.cond = ">" -> "GT"
      [] l.kind = "ternary" /\ l.cond = ">=" -> "GE"
      [] l.kind = "if_goto" /\ l.cond = "==" -> "JEQ"
      [] l.kind = "if_goto" /\ l.cond = "!=" -> "JNE"
      [] l.kind = "if_goto" /\ l.cond = ">" -> "JGT"
      [] l.kind = "if_goto" /\ l.cond = ">=" -> "JGE"
      [] l.kind = "goto" -> "JMP"
      [] OTHER -> "none"

\* C13: to_c() prints one declaration for each distinct register name of the
\* REGISTER instructions, in the order of first occurrence, the memory buffer
\* exactly when the list holds a STORE or a LOAD, and then the statements of
\* the instructions in the order of the list.
C13_ListingLayout ==
    Lowered =>
        LET decls == SelectSeq(c_text, IsDeclLine)
            n == Len(decls)
            has_memory == \E i \in 1..Len(c_text) : c_text[i].kind = "memory"
            head == 1 + n + 1 + (IF has_memory THEN 1 ELSE 0)
        IN  /\ \A i \in 1..n : c_text[1 + i] = decls[i]
            /\ \A i, j \in 1..n : i # j => decls[i].a # decls[j].a
            /\ {decls[i].a : i \in 1..n}
                  = {res.list[i].args[1] : i \in {j \in 1..Len(res.list) : res.list[j].op = "REGISTER"}}
            /\ \A i, j \in 1..n : i < j => FirstDeclared(decls[i].a) < FirstDeclared(decls[j].a)
            /\ has_memory <=> \E i \in 1..Len(res.list) : res.list[i].op \in {"STORE", "LOAD"}
            /\ has_memory => c_text[head].kind = "memory"
            /\ Len(c_text) = head + WidthBefore(Len(res.list) + 1) + 1
            /\ \A i \in 1..Len(res.list) :
                  \A w \in 1..Width(res.list[i]) :
                      LET l == c_text[head + WidthBefore(i) + w]
                      IN  /\ Origin(l) = res.list[i].op
                          /\ l.kind \notin {"label", "goto"} =>
                                l.a = res.list[i].args[IF l.kind = "putchar" THEN w ELSE 1]

\* a listing for a list that declares a register twice and stores to memory
C13_Witness ==
    /\ Lowered
    /\ \E i, j \in 1..Len(res.list) :
          /\ i < j
          /\ res.list[i].op = "REGISTER" /\ res.list[j].op = "REGISTER"
          /\ res.list[i].args[1] = res.list[j].args[1]
    /\ \E i \in 1..Len(res.list) : res.list[i].op = "STORE"
    /\ \E i \in 1..Len(c_text) : c_text[i].kind = "memory"

\* C14: in lowering mode every parse that did not fail, whatever the length
\* of its list, is followed by a complete listing: the preamble first and the
\* return statement last.
C14_ListingAlwaysComplete ==
    (to_c_flag /\ ParseDone /\ ~res.none /\ phase \notin {"main", "to_c"}) =>
        /\ c_text # <<>>
        /\ c_text[1].kind = "preamble"
        /\ c_text[Len(c_text)].kind = "return"

---------------------------------------------------------------------------
(* Claims about successive calls of parse() *)

Returned == phase = "main"

\* C15: a call of parse() starts from empty name tables, line 1 and a cleared
\* error flag, so a text parsed again after any other text gives the result
\* and the diagnostics it gave when it was parsed first.
C15_ParseCallsIndependent ==
    /\ phase = "parse" /\ lineno = 1 =>
          register_names = <<>> /\ label_names = <<>> /\ parser_error = 0
    /\ Returned =>
          \A i \in 1..Len(calls.returned) :
              calls.returned[i].source = source =>
                  /\ res = calls.returned[i].res
                  /\ stderr = calls.returned[i].stderr

\* the third call has returned a list and the undeclared-register warning,
\* after a call that declared the register and then met a syntax error
C15_Witness ==
    /\ Returned
    /\ Len(calls.returned) = 2
    /\ calls.returned[1].source = source
    /\ \E k \in 1..Len(stderr) : stderr[k].msg = "is an undeclared register"
    /\ \E i \in 1..Len(calls.returned[2].source) : calls.returned[2].source[i].kind = "decl"
    /\ calls.returned[2].res.none
    /\ ~res.none
    /\ res.list # <<>>

---------------------------------------------------------------------------
(* Claims about the end of run() *)

JumpOps == {"JMP", "JEQ", "JNE", "JGT", "JGE"}

JumpFree == \A i \in 1..Len(res.list) : res.list[i].op \notin JumpOps

\* `I have P`, `P-P`, `Uh! Jump-P-P`
LoopSource ==
    <<DeclLine("absent", <<>>, "P"), LabelLine(FALSE, <<"P", "P">>),
      CmdLine("Jump", <<>>, <<"P", "P">>, FALSE, FALSE)>>

Running == phase = "run" /\ status = "running"

\* C16: run() ends exactly with the program counter at the length of the
\* list; a list without jumps ends, after each instruction was executed once in
\* order unless one raised; [Declare P = 0, Label P-P, Jump P-P] never ends.
C16_StopsAtEnd ==
    /\ [](phase = "run" => /\ pc <= Len(res.list)
                           /\ status = "done" => pc = Len(res.list))
    /\ []((phase = "run" /\ JumpFree /\ status \in {"running", "done"}) =>
             /\ \A k \in 1..Len(trace) : trace[k].pc = k - 1 /\ trace[k].ins = res.list[k]
             /\ pc = Len(trace)
             /\ status = "done" => Len(trace) = Len(res.list))
    /\ (Running /\ JumpFree) ~> (phase = "run" /\ status # "running")
    /\ [](source = LoopSource =>
             /\ status \in {"idle", "running"}
             /\ phase = "run" => pc < Len(res.list))

\* the loop has come round to its jump a second time
C16_Witness ==
    /\ source = LoopSource
    /\ Running
    /\ \E i, j \in 1..Len(trace) :
          i < j /\ trace[i].ins.op = "JMP" /\ trace[j].ins.op = "JMP" /\ trace[i].pc = trace[j].pc

---------------------------------------------------------------------------
(* Claims about the jumps of run() *)

ConditionalJumps == {"JEQ", "JNE", "JGT", "JGE"}

\* the comparison a conditional jump makes
JumpComparison == [JEQ |-> "EQ", JNE |-> "NE", JGT |-> "GT", JGE |-> "GE"]

\* the instruction a conditional-jump line stands for
JumpOf(line) ==
    IF line.cmd = "Compare" THEN (IF line.quest THEN "JNE" ELSE "JEQ")
    ELSE (IF line.quest THEN "JGE" ELSE "JGT")

\* the indices of the LABEL instructions named l
LabelIndices(l) ==
    {i - 1 : i \in {j \in 1..Len(res.list) : res.list[j].op = "LABEL" /\ res.list[j].label = l}}

\* C17: JEQ, JNE, JGT and JGE on (a, b, label) set the program counter to the
\* label's index when a ==, !=, >, >= b holds and go on to the next instruction
\* when it does not, and change no register and no memory cell; a `?` after
\* the line makes Compare test != and Superior test >=.
C17_ConditionalJump ==
    /\ (ParseDone /\ LineForLine) =>
          \A i \in 1..Len(source) :
              (source[i].kind = "cmd" /\ source[i].cmd \in {"Compare", "Superior"}
                    /\ source[i].bang) =>
                  /\ res.list[i].op = JumpOf(source[i])
                  /\ res.list[i].args = source[i].regs
                  /\ res.list[i].label = source[i].label
    /\ \A k \in 1..Len(trace) :
          LET t == trace[k]
              a == t.ins.args[1]
              b == t.ins.args[2]
          IN  (t.ins.op \in ConditionalJumps /\ a \in DOMAIN t.registers
                    /\ b \in DOMAIN t.registers) =>
                  /\ RegistersAfter(k) = t.registers
                  /\ MemoryAfter(k) = t.memory
                  /\ IF Holds(JumpComparison[t.ins.op], t.registers[a], t.registers[b])
                     THEN LabelIndices(t.ins.label) # {} =>
                              Succeeded(k) /\ PcAfter(k) \in LabelIndices(t.ins.label)
                     ELSE Succeeded(k) /\ PcAfter(k) = t.pc + 1

\* `Uh! Superior-P-Q-P-Q!?` with P = Q has jumped over a line to the label,
\* where a negated > would have gone on
C17_Witness ==
    \E k \in 1..Len(trace) :
        /\ trace[k].ins.op = "JGE"
        /\ trace[k].registers["P"] = trace[k].registers["Q"]
        /\ PcAfter(k) \in LabelIndices(trace[k].ins.label)
        /\ PcAfter(k) > trace[k].pc + 1

NoDiagnostics == stderr = <<>>

\* C18: in a list parse() returned without failure and without diagnostics
\* every jump names the label of some LABEL instruction of the list, so the
\* label lookup of run() never fails and pc stays within 0..len(list).
C18_JumpTargetsExist ==
    (phase = "run" /\ NoDiagnostics) =>
        /\ \A i \in 1..Len(res.list) :
              res.list[i].op \in JumpOps => LabelIndices(res.list[i].label) # {}
        /\ status # "KeyError"
        /\ pc \in 0..Len(res.list)

\* the registers an instruction reads
Reads(op) ==
    CASE op.op \in {"MOV", "LOAD"} -> {op.args[2]}
      [] op.op \in {"ADD", "SUB", "MUL", "DIV", "STORE", "EQ", "NE", "GT", "GE"}
            \cup ConditionalJumps -> {op.args[1], op.args[2]}
      [] op.op \in {"PRINT", "PUTC"} -> {op.args[i] : i \in 1..Len(op.args)}
      [] OTHER -> {}

NoUndeclaredDiagnostic ==
    \A k \in 1..Len(stderr) : stderr[k].msg # "is an undeclared register"

\* C19: in the run of a list parsed without an undeclared-register diagnostic
\* every register an instruction reads was set by a REGISTER instruction
\* executed before it, whatever way the jumps went.
C19_ReadsAreInitialised ==
    (Running /\ NoUndeclaredDiagnostic /\ pc < Len(res.list)) =>
        Reads(res.list[pc + 1]) \subseteq DOMAIN registers

---------------------------------------------------------------------------
(* Claims about the label renaming of to_c() *)

\* the instructions of the list that carry a label name
Named == {i \in 1..Len(res.list) : res.list[i].op \in {"LABEL"} \cup JumpOps}

\* the identifier the listing prints for the label name of the i-th instruction
Target(i) ==
    LET n == Len(SelectSeq(c_text, IsDeclLine))
        mem == IF \E k \in 1..Len(c_text) : c_text[k].kind = "memory" THEN 1 ELSE 0
    IN  c_text[1 + n + 1 + mem + WidthBefore(i) + 1].target

\* the identifiers the listing declares as int variables
DeclaredIdentifiers == {Spelling[c_text[k].a] : k \in {j \in 1..Len(c_text) : IsDeclLine(c_text[j])}}

Chars(text) == {text[k] : k \in 1..Len(text)}

\* C20: in the listing of a parsed list two instructions with distinct label
\* names are printed with distinct target identifiers, equal names with equal
\* identifiers, no target identifier is the name of a declared register, and
\* no register name holds an underscore.
C20_RenamingInjective ==
    Lowered =>
        /\ \A i, j \in Named :
              (LabelText(res.list[i].label) = LabelText(res.list[j].label))
                  <=> (Target(i) = Target(j))
        /\ \A i \in Named :
              /\ Target(i) \notin DeclaredIdentifiers
              /\ \A r \in DOMAIN register_names : Target(i) # Spelling[register_names[r]]
              /\ "-" \notin Chars(Target(i))
        /\ \A r \in DOMAIN Spelling : "_" \notin Chars(Spelling[r])

\* a listing that declares PQ and prints the labels P-Q and one more, whose
\* names differ only in the place of a hyphen or in a further segment
C20_Witness ==
    /\ Lowered
    /\ \E k \in 1..Len(c_text) : IsDeclLine(c_text[k]) /\ c_text[k].a = "PQ"
    /\ \E i, j \in Named :
          /\ res.list[i].op = "LABEL" /\ res.list[j].op = "LABEL"
          /\ res.list[i].label = <<"P", "Q">>
          /\ res.list[j].label \in {<<"PQ", "P">>, <<"P", "Q", "P">>}
          /\ Target(i) = <<"P", "_", "Q">>
          /\ Target(j) # Target(i)

====
